---- MODULE Spec2Model ----
(***************************************************************************)
(* chanjo: the sambamba invocation (chanjo/annotate/sambamba/run.py), the  *)
(* root command (chanjo/cli/root.py) and the transcript statistics schema  *)
(* (chanjo/store/txmodels.py).                                             *)
(*                                                                         *)
(* Five specifications share the module:                                   *)
(*   Spec       one "load a sample" process: run_sambamba, then the        *)
(*              aggregation and the per-sample store transaction           *)
(*   SpecCall   the command run_sambamba builds, for all its arguments     *)
(*   SpecStore  the three tables under arbitrary row operations            *)
(*   SpecExons  the incomplete_exons property of one TranscriptStat        *)
(*   SpecRoot   the root command resolving its context object              *)
(***************************************************************************)
EXTENDS Integers, Sequences, FiniteSets, Bags, TLC

VARIABLES
    \* ---- load process -------------------------------------------------
    pc,             \* "idle", "ran", "loaded", "exited"
    cur_sample,     \* sample the process works on
    bam_file,       \* run_sambamba argument
    region_file,    \* run_sambamba argument
    outfile,        \* run_sambamba argument
    cov_treshold,   \* run_sambamba argument (sequence of integers)
    sambamba_call,  \* the argument vector handed to subprocess.check_call
    tool,           \* what the environment does with the call
    depth,          \* per-base depth reported by the tool when it succeeds
    raised,         \* exception that left the process, or NoException
    log,            \* records emitted so far by this process
    exit_status,    \* status of the process once it has exited
    statsBefore,    \* transcript_stat table when the process started
    rerun,          \* "no", or how the load this process repeats has ended:
                    \* "committed" or "refused"
    \* ---- store --------------------------------------------------------
    backend,        \* database behind the configured URI
    samples,        \* primary keys of table sample
    transcripts,    \* table transcript: id -> length
    stats,          \* table transcript_stat: bag of rows; the surrogate key id,
                    \* which no operation reads, is the row's place in the bag
    lastOp,         \* last row operation and what the database answered
    \* ---- TranscriptStat instance --------------------------------------
    _incomplete_exons,     \* attribute of the instance (column of its row)
    assigned,              \* last list given to the setter
    returned,              \* last list the getter returned
    exon_pc,               \* "loaded", "set", "read_set", "read_row"
    \* ---- root command -------------------------------------------------
    root_pc,        \* "start", "done"
    database,       \* --database option
    verbose,        \* -v count
    config_file,    \* content of the config file: key -> value
    context_obj,    \* context.obj after root
    log_level       \* level handed to make_handler

loadVars  == <<pc, cur_sample, bam_file, region_file, outfile, cov_treshold, sambamba_call, tool,
               depth, raised, log, exit_status, statsBefore, rerun>>
storeVars == <<backend, samples, transcripts, stats, lastOp>>
exonVars  == <<_incomplete_exons, assigned, returned, exon_pc>>
rootVars  == <<root_pc, database, verbose, config_file, context_obj, log_level>>
vars      == <<loadVars, storeVars, exonVars, rootVars>>

-----------------------------------------------------------------------------
(* Values *)

\* Python None where a string is expected
PyNone == "<None>"

\* SQL NULL in a text column
NULLTEXT == "<NULL>"

\* SQL NULL, NaN and numbers in a numeric column
NULL == [kind |-> "null"]

NAN == [kind |-> "nan"]

Num(v) == [kind |-> "num", v |-> v]

\* Python truthiness of an optional string
Truthy(v) == v # PyNone /\ v # ""

-----------------------------------------------------------------------------
(* Bounds and input sets *)

MaxThresholds == 2

MaxExons == 2

MaxIdLen == 2

MaxVerbose == 4

SampleIds == {"s1", "s2"}

TranscriptIds == {"t1", "t2"}

BamFiles == {"s1.bam", "s2.bam"}

RegionFiles == {"regions.bed", "panel.bed"}

OutFiles == {PyNone, "", "out.bed"}

ThresholdValues == {0, 10, 30}

DefaultThresholds == <<10, 15, 20, 50, 100>>

DepthValues == {12, 40}

Tools == {"missing", "nonzero", "ok"}

RECURSIVE SeqsUpTo(_, _)
SeqsUpTo(S, n) ==
    IF n = 0 THEN {<<>>}
    ELSE LET shorter == SeqsUpTo(S, n - 1)
         IN  shorter \cup {Append(q, x) : q \in shorter, x \in S}

ThresholdSeqs == SeqsUpTo(ThresholdValues, MaxThresholds) \cup {DefaultThresholds}

-----------------------------------------------------------------------------
(* run_sambamba *)

Digit(d) ==
    CASE d = 0 -> "0" [] d = 1 -> "1" [] d = 2 -> "2" [] d = 3 -> "3"
      [] d = 4 -> "4" [] d = 5 -> "5" [] d = 6 -> "6" [] d = 7 -> "7"
      [] d = 8 -> "8" [] d = 9 -> "9"

\* str() of an integer
RECURSIVE Str(_)
Str(n) ==
    IF n < 0 THEN "-" \o Str(0 - n)
    ELSE IF n < 10 THEN Digit(n)
    ELSE Str(n \div 10) \o Digit(n % 10)

\* ' '.join(words)
RECURSIVE JoinSpace(_)
JoinSpace(words) ==
    IF words = <<>> THEN ""
    ELSE IF Len(words) = 1 THEN words[1]
    ELSE words[1] \o " " \o JoinSpace(Tail(words))

\* a loop that skips a threshold it has already added
RECURSIVE AddThresholdsDedup(_, _)
AddThresholdsDedup(call, thresholds) ==
    IF thresholds = <<>> THEN call
    ELSE IF \E i \in DOMAIN call : call[i] = Str(Head(thresholds)) /\ i > 6
         THEN AddThresholdsDedup(call, Tail(thresholds))
         ELSE AddThresholdsDedup(call \o <<"-T", Str(Head(thresholds))>>, Tail(thresholds))

\* the for loop over cov_treshold
RECURSIVE AddThresholds(_, _)
AddThresholds(call, thresholds) ==
    IF thresholds = <<>> THEN call
    ELSE AddThresholds(call \o <<"-T", Str(Head(thresholds))>>, Tail(thresholds))

\* the list run_sambamba builds before it calls the tool
SambambaCall(bam, region, out, thresholds) ==
    LET base    == <<"sambamba", "depth", "region", "--regions", region, bam>>
        withOut == IF Truthy(out) THEN base \o <<"-o", out>> ELSE base
    IN  AddThresholds(withOut, thresholds)

\* names bound at module level in run.py
ModuleGlobalsWithSys == {"subprocess", "logging", "get_log_stream", "run_sambamba", "sys"}

ModuleGlobals == {"subprocess", "logging", "get_log_stream", "run_sambamba"}

NoException == [type |-> "none"]

\* subprocess.check_call
CheckCall(t) ==
    CASE t = "missing" -> [type |-> "OSError"]
      [] t = "nonzero" -> [type |-> "CalledProcessError"]
      [] OTHER         -> NoException

\* the statement sys.exit() in the OSError handler
SysExit ==
    IF "sys" \in ModuleGlobals
    THEN [type |-> "SystemExit", code |-> PyNone]
    ELSE [type |-> "NameError"]

\* the try/except around check_call: the exception that leaves run_sambamba
RunOutcome(t) ==
    LET e == CheckCall(t)
    IN  IF e.type = "OSError" THEN SysExit ELSE e

\* the records run_sambamba logs
RunLog(call, t) ==
    LET e      == CheckCall(t)
        info   == <<[level |-> "info",
                     msg   |-> "Running sambamba with call:\n" \o JoinSpace(call)]>>
        crit   == IF e.type = "OSError"
                  THEN <<[level |-> "critical",
                          msg   |-> "sambamba seems to not exist on your system."]>>
                  ELSE <<>>
        debug  == IF RunOutcome(t) = NoException
                  THEN <<[level |-> "debug", msg |-> "sambamba run successfull"]>>
                  ELSE <<>>
    IN  info \o crit \o debug

\* status of the interpreter when an exception (or none) ends the process
ExitStatus(e) ==
    CASE e.type = "none"       -> 0
      [] e.type = "SystemExit" -> IF e.code = PyNone THEN 0 ELSE 1
      [] OTHER                 -> 1

\* Sample.source of the sample being loaded
Source(s) == s \o ".bam"

-----------------------------------------------------------------------------
(* TranscriptStat.incomplete_exons: text is a sequence of characters *)

ExonAlphabet == {"a", "b"}

Comma == ","

\* the attribute before anything was assigned to it (Python None / SQL NULL)
NoneText == <<"<None>">>

\* truthiness of the attribute
TruthyText(text) == text # NoneText /\ text # <<>>

\* ','.join(value)
RECURSIVE JoinComma(_)
JoinComma(value) ==
    IF value = <<>> THEN <<>>
    ELSE IF Len(value) = 1 THEN value[1]
    ELSE value[1] \o <<Comma>> \o JoinComma(Tail(value))

\* text.split(','): the pieces between commas, empty pieces included
RECURSIVE SplitFrom(_, _, _)
SplitFrom(text, piece, done) ==
    IF text = <<>> THEN Append(done, piece)
    ELSE IF Head(text) = Comma THEN SplitFrom(Tail(text), <<>>, Append(done, piece))
    ELSE SplitFrom(Tail(text), Append(piece, Head(text)), done)

SplitComma(text) == SplitFrom(text, <<>>, <<>>)

\* the getter without its guard on an empty attribute
IncompleteExonsGetterUnguarded(text) ==
    IF text = NoneText THEN <<>> ELSE SplitComma(text)

\* property incomplete_exons (getter)
IncompleteExonsGetter(text) ==
    IF TruthyText(text) THEN SplitComma(text) ELSE <<>>

\* incomplete_exons.setter
IncompleteExonsSetter(value) == JoinComma(value)

-----------------------------------------------------------------------------
(* Tables and their constraints *)

Backends == {"sqlite", "postgresql"}

\* the database the configured URI names; the default is an SQLite file
\* SQLite does not enforce foreign keys unless asked to on each connection
FkEnforced(b) == b # "sqlite"

\* SQLite stores a NaN as NULL
StoredFloat(b, v) == IF b = "sqlite" /\ v = NAN THEN NULL ELSE v

CompletenessColumns == {10, 15, 20, 50, 100}

\* a TranscriptStat as constructed, before the database gives it an id
NewStat(s, t, mean) ==
    [sample_id         |-> s,
     transcript_id     |-> t,
     mean_coverage     |-> mean,
     completeness_10   |-> NULL,
     completeness_15   |-> NULL,
     completeness_20   |-> NULL,
     completeness_50   |-> NULL,
     completeness_100  |-> NULL,
     threshold         |-> NULL,
     _incomplete_exons |-> NoneText]

\* the completeness value a row holds for a threshold; {} when it has no column
CompletenessOf(row, c) ==
    CASE c = 10  -> {row.completeness_10}
      [] c = 15  -> {row.completeness_15}
      [] c = 20  -> {row.completeness_20}
      [] c = 50  -> {row.completeness_50}
      [] c = 100 -> {row.completeness_100}
      [] OTHER   -> {}

\* a row as the database stores it
StoredRow(row, b) ==
    [row EXCEPT !.mean_coverage    = StoredFloat(b, @),
                !.completeness_10  = StoredFloat(b, @),
                !.completeness_15  = StoredFloat(b, @),
                !.completeness_20  = StoredFloat(b, @),
                !.completeness_50  = StoredFloat(b, @),
                !.completeness_100 = StoredFloat(b, @)]

\* the rows of a table, without their multiplicity
Rows(table) == BagToSet(table)

One(row) == SetToBag({row})

\* the rows of one sample
StatsOf(table, s) ==
    LET rows == {r \in Rows(table) : r.sample_id = s}
    IN  IF rows = {} THEN EmptyBag ELSE [r \in rows |-> table[r]]

\* the rows of one (sample, transcript) pair
StatsOfPair(table, s, t) ==
    LET rows == {r \in Rows(table) : r.sample_id = s /\ r.transcript_id = t}
    IN  IF rows = {} THEN EmptyBag ELSE [r \in rows |-> table[r]]

\* nullable=False on sample_id, transcript_id and mean_coverage
NotNullOk(b, row) ==
    /\ row.sample_id # NULLTEXT
    /\ row.transcript_id # NULLTEXT
    /\ StoredFloat(b, row.mean_coverage) # NULL

\* a table without the uniqueness constraint
UniqueOkUnconstrained(table, row) == TRUE

\* UniqueConstraint('sample_id', 'transcript_id')
UniqueOk(table, row) ==
    \A r \in Rows(table) :
        ~(r.sample_id = row.sample_id /\ r.transcript_id = row.transcript_id)

\* ForeignKey('sample.id'), ForeignKey('transcript.id')
ForeignKeyOk(b, smp, trs, row) ==
    FkEnforced(b) => (row.sample_id \in smp /\ row.transcript_id \in DOMAIN trs)

\* what the database answers to a row that is inserted or updated
RowError(b, smp, trs, table, row) ==
    IF ~NotNullOk(b, row) THEN "NOT NULL"
    ELSE IF ~UniqueOk(table, row) THEN "UNIQUE"
    ELSE IF ~ForeignKeyOk(b, smp, trs, row) THEN "FOREIGN KEY"
    ELSE "ok"

-----------------------------------------------------------------------------
(* Aggregation and the per-sample transaction *)

\* exon ids of a transcript
ExonsOf(t) == IF t = "t1" THEN << <<"a">>, <<"b">> >> ELSE << <<"a", "b">> >>

\* how an undefined statistic is reported
Undefined == NULL

\* the TranscriptStat of one transcript whose every base has depth d
StatFor(s, t, len, d, thresholds) ==
    LET has(c)     == \E i \in DOMAIN thresholds : thresholds[i] = c
        passed(c)  == IF d >= c THEN len ELSE 0
        frac(c)    == IF ~has(c) THEN NULL
                      ELSE IF len = 0 THEN Undefined
                      ELSE Num((passed(c) * 100) \div len)
        incomplete == IF thresholds # <<>> /\ len > 0 /\ d < Head(thresholds)
                      THEN ExonsOf(t) ELSE <<>>
    IN  [sample_id         |-> s,
         transcript_id     |-> t,
         mean_coverage     |-> IF len = 0 THEN Undefined ELSE Num((d * len) \div len),
         completeness_10   |-> frac(10),
         completeness_15   |-> frac(15),
         completeness_20   |-> frac(20),
         completeness_50   |-> frac(50),
         completeness_100  |-> frac(100),
         threshold         |-> IF thresholds = <<>> THEN NULL ELSE Num(Head(thresholds)),
         _incomplete_exons |-> IncompleteExonsSetter(incomplete)]

\* one TranscriptStat per transcript of the annotation
Aggregate(s, trs, d, thresholds) ==
    {StatFor(s, t, trs[t], d, thresholds) : t \in DOMAIN trs}

\* INSERT of a set of rows, stopping at the first one the database refuses
RECURSIVE InsertAll(_, _, _, _, _)
InsertAll(b, smp, trs, table, rows) ==
    IF rows = {} THEN [error |-> "ok", table |-> table]
    ELSE LET row == CHOOSE r \in rows : TRUE
             err == RowError(b, smp, trs, table, row)
         IN  IF err # "ok" THEN [error |-> err, table |-> table]
             ELSE InsertAll(b, smp, trs, table (+) One(StoredRow(row, b)), rows \ {row})

\* a replace that inserts without deleting the sample's rows first
ReplaceStatsNoDelete(b, smp, trs, table, s, rows) ==
    LET res == InsertAll(b, smp \cup {s}, trs, table, rows)
    IN  IF res.error = "ok"
        THEN [error |-> "ok", samples |-> smp \cup {s}, table |-> res.table]
        ELSE [error |-> res.error, samples |-> smp, table |-> table]

\* upsertSample, then upsertTranscriptStats: delete the sample's rows, insert
\* the new set, commit; any refusal rolls the whole transaction back
ReplaceStats(b, smp, trs, table, s, rows) ==
    LET kept == table (-) StatsOf(table, s)
        res  == InsertAll(b, smp \cup {s}, trs, kept, rows)
    IN  IF res.error = "ok"
        THEN [error |-> "ok", samples |-> smp \cup {s}, table |-> res.table]
        ELSE [error |-> res.error, samples |-> smp, table |-> table]

NoOp ==
    [kind |-> "none", sample_id |-> NULLTEXT, transcript_id |-> NULLTEXT,
     mean_coverage |-> NULL, session |-> FALSE, result |-> "ok"]

Op(kind, s, t, mean, session, result) ==
    [kind |-> kind, sample_id |-> s, transcript_id |-> t,
     mean_coverage |-> mean, session |-> session, result |-> result]

-----------------------------------------------------------------------------
(* Initial values of the parts a specification leaves alone *)

LoadIdle ==
    /\ pc = "idle"
    /\ cur_sample = PyNone
    /\ bam_file = PyNone
    /\ region_file = PyNone
    /\ outfile = PyNone
    /\ cov_treshold = <<>>
    /\ sambamba_call = <<>>
    /\ tool = "ok"
    /\ depth = 0
    /\ raised = NoException
    /\ log = <<>>
    /\ exit_status = {}
    /\ statsBefore = EmptyBag
    /\ rerun = "no"

StoreEmpty ==
    /\ samples = {}
    /\ stats = EmptyBag
    /\ lastOp = NoOp

EmptyTable == [k \in {} |-> 0]

StoreIdle ==
    /\ StoreEmpty
    /\ backend = "sqlite"
    /\ transcripts = EmptyTable

ExonNew ==
    /\ _incomplete_exons = NoneText
    /\ assigned = <<>>
    /\ returned = <<>>
    /\ exon_pc = "loaded"

RootStart ==
    /\ root_pc = "start"
    /\ database = PyNone
    /\ verbose = 0
    /\ config_file = <<>>
    /\ context_obj = <<>>
    /\ log_level = 0

-----------------------------------------------------------------------------
(* Spec: loading a sample *)

Annotations ==
    { [t \in {"t1"} |-> 3],
      [t \in {"t1", "t2"} |-> IF t = "t1" THEN 3 ELSE 5],
      [t \in {"t1", "t2"} |-> IF t = "t1" THEN 3 ELSE 0] }

\* threshold sets a load is configured with: the defaults and caller-supplied ones
LoadThresholds == {DefaultThresholds, <<30>>, <<10, 30>>}

\* the load reads the tool's standard output
LoadOutFile == PyNone

LoadRegionFile == "regions.bed"

Init ==
    /\ LoadIdle
    /\ StoreEmpty
    /\ backend \in Backends
    /\ transcripts \in Annotations
    /\ ExonNew
    /\ RootStart

\* run_sambamba, called by a new process for sample s
Start(s, thresholds, t, d, again) ==
    LET call == SambambaCall(Source(s), LoadRegionFile, LoadOutFile, thresholds)
    IN  /\ pc' = "ran"
        /\ cur_sample' = s
        /\ bam_file' = Source(s)
        /\ region_file' = LoadRegionFile
        /\ outfile' = LoadOutFile
        /\ cov_treshold' = thresholds
        /\ sambamba_call' = call
        /\ tool' = t
        /\ depth' = IF t = "ok" THEN d ELSE 0
        /\ raised' = RunOutcome(t)
        /\ log' = RunLog(call, t)
        /\ exit_status' = {}
        /\ statsBefore' = stats
        /\ rerun' = again
        /\ UNCHANGED <<storeVars, exonVars, rootVars>>

RunSambamba ==
    /\ pc \in {"idle", "exited"}
    /\ \E s \in SampleIds, thresholds \in LoadThresholds, t \in Tools, d \in DepthValues :
          Start(s, thresholds, t, d, "no")

\* the same sample is loaded again from the same depth input
Rerun ==
    /\ pc = "exited"
    /\ tool = "ok"
    /\ Start(cur_sample, cov_treshold, "ok", depth,
             IF raised = NoException THEN "committed" ELSE "refused")

\* the aggregation of the tool's output and the store transaction
LoadStats ==
    /\ pc = "ran"
    /\ raised = NoException
    /\ LET rows == Aggregate(cur_sample, transcripts, depth, cov_treshold)
           res  == ReplaceStats(backend, samples, transcripts, stats, cur_sample, rows)
       IN  /\ samples' = res.samples
           /\ stats' = res.table
           /\ raised' = IF res.error = "ok" THEN NoException
                        ELSE [type |-> "IntegrityError"]
           /\ lastOp' = Op("ReplaceStats", cur_sample, NULLTEXT, NULL, TRUE, res.error)
    /\ pc' = "loaded"
    /\ UNCHANGED <<cur_sample, bam_file, region_file, outfile, cov_treshold,
                   sambamba_call, tool, depth, log, exit_status, statsBefore, rerun>>
    /\ UNCHANGED <<backend, transcripts, exonVars, rootVars>>

\* the interpreter ends the process
Exit ==
    /\ \/ pc = "loaded"
       \/ pc = "ran" /\ raised # NoException
    /\ pc' = "exited"
    /\ exit_status' = {ExitStatus(raised)}
    /\ log' = IF raised.type \in {"none", "SystemExit"} THEN log
              ELSE Append(log, [level |-> "traceback", msg |-> raised.type])
    /\ UNCHANGED <<cur_sample, bam_file, region_file, outfile, cov_treshold,
                   sambamba_call, tool, depth, raised, statsBefore, rerun>>
    /\ UNCHANGED <<storeVars, exonVars, rootVars>>

Next == RunSambamba \/ Rerun \/ LoadStats \/ Exit

Spec == Init /\ [][Next]_vars

\* C2: when the tool is missing, the load ends with SourceUnavailableError
\* and the transcript_stat table is what it was when the load started
C2_MissingToolSourceUnavailable ==
    (pc = "exited" /\ tool = "missing") =>
        /\ raised.type = "SourceUnavailableError"
        /\ stats = statsBefore

\* C3: a tool that cannot be executed or exits non-zero never lets
\* run_sambamba return or log its success, the load never reaches the store,
\* and the process ends with a non-zero status and a diagnostic record
C3_FailureNeverSucceeds ==
    (pc # "idle" /\ tool \in {"missing", "nonzero"}) =>
        /\ raised # NoException
        /\ pc # "loaded"
        /\ \A i \in DOMAIN log : log[i].level # "debug"
        /\ pc = "exited" =>
              /\ exit_status # {}
              /\ 0 \notin exit_status
              /\ \E i \in DOMAIN log : log[i].level \in {"critical", "traceback"}

C3_Witness ==
    /\ pc = "exited"
    /\ tool = "missing"
    /\ exit_status = {1}
    /\ \E i \in DOMAIN log : log[i].level = "critical"

\* C6: loading the same sample again from the same depth input ends as the
\* first load did and leaves the sample's rows as they were, never two rows
\* for a pair; after a committed load the sample has one row per transcript
C6_ReloadIdempotent ==
    (pc = "loaded" /\ rerun # "no") =>
        /\ (raised = NoException) <=> (rerun = "committed")
        /\ StatsOf(stats, cur_sample) = StatsOf(statsBefore, cur_sample)
        /\ \A s \in SampleIds, t \in TranscriptIds :
              BagCardinality(StatsOfPair(stats, s, t)) <= 1
        /\ rerun = "committed" =>
              /\ \A t \in DOMAIN transcripts :
                    BagCardinality(StatsOfPair(stats, cur_sample, t)) = 1
              /\ BagCardinality(StatsOf(stats, cur_sample)) = Cardinality(DOMAIN transcripts)

C6_Witness ==
    /\ pc = "loaded"
    /\ rerun = "committed"
    /\ raised = NoException
    /\ BagCardinality(StatsOf(stats, cur_sample)) = 2
    /\ BagCardinality(StatsOf(statsBefore, cur_sample)) = 2
    /\ stats # StatsOf(stats, cur_sample)

\* C8: after a committed load every threshold given to run_sambamba has a
\* completeness value in each of the sample's rows
C8_EveryThresholdHasCompleteness ==
    (pc = "loaded" /\ raised = NoException) =>
        \A r \in Rows(StatsOf(stats, cur_sample)) :
            \A i \in DOMAIN cov_treshold : CompletenessOf(r, cov_treshold[i]) # {}

-----------------------------------------------------------------------------
(* SpecCall: the command run_sambamba builds, for all arguments *)

InitCall ==
    /\ pc = "idle"
    /\ cur_sample = PyNone
    /\ bam_file \in BamFiles
    /\ region_file \in RegionFiles
    /\ outfile \in OutFiles
    /\ cov_treshold \in ThresholdSeqs
    /\ sambamba_call = <<>>
    /\ tool \in Tools
    /\ depth = 0
    /\ raised = NoException
    /\ log = <<>>
    /\ exit_status = {}
    /\ statsBefore = EmptyBag
    /\ rerun = "no"
    /\ StoreIdle
    /\ ExonNew
    /\ RootStart

\* run_sambamba(bam_file, region_file, outfile, cov_treshold)
CallSambamba ==
    /\ pc = "idle"
    /\ pc' = "ran"
    /\ sambamba_call' = SambambaCall(bam_file, region_file, outfile, cov_treshold)
    /\ raised' = RunOutcome(tool)
    /\ log' = RunLog(sambamba_call', tool)
    /\ UNCHANGED <<cur_sample, bam_file, region_file, outfile, cov_treshold, tool,
                   depth, exit_status, statsBefore, rerun>>
    /\ UNCHANGED <<storeVars, exonVars, rootVars>>

NextCall == CallSambamba

SpecCall == InitCall /\ [][NextCall]_vars

\* decimal numerals of the thresholds used
DecimalText(n) ==
    CASE n = 0 -> "0" [] n = 10 -> "10" [] n = 15 -> "15" [] n = 20 -> "20"
      [] n = 30 -> "30" [] n = 50 -> "50" [] n = 100 -> "100"

\* C5: the command is the six-element base, then -o and the output path when
\* one was supplied (outfile neither None nor empty), then one -T pair per
\* threshold in the order given, repeated thresholds included
C5_CommandExact ==
    pc = "ran" =>
        LET supplied == outfile # PyNone /\ outfile # ""
            k        == IF supplied THEN 8 ELSE 6
            n        == Len(cov_treshold)
        IN  /\ Len(sambamba_call) = k + 2 * n
            /\ sambamba_call[1] = "sambamba"
            /\ sambamba_call[2] = "depth"
            /\ sambamba_call[3] = "region"
            /\ sambamba_call[4] = "--regions"
            /\ sambamba_call[5] = region_file
            /\ sambamba_call[6] = bam_file
            /\ supplied => (sambamba_call[7] = "-o" /\ sambamba_call[8] = outfile)
            /\ \A i \in 1..n :
                  /\ sambamba_call[k + 2 * i - 1] = "-T"
                  /\ sambamba_call[k + 2 * i] = DecimalText(cov_treshold[i])

C5_Witness ==
    /\ pc = "ran"
    /\ outfile = "out.bed"
    /\ cov_treshold = <<10, 10>>
    /\ Len(sambamba_call) = 12

-----------------------------------------------------------------------------
(* SpecExons: the incomplete_exons property of a TranscriptStat *)

ExonIdsAll == SeqsUpTo(ExonAlphabet, MaxIdLen) \ {<<>>}

ExonLists == SeqsUpTo(ExonIdsAll, MaxExons)

\* what the column of a stored row may hold
RawTexts == {NoneText} \cup SeqsUpTo(ExonAlphabet \cup {Comma}, 2)

\* an instance loaded from a stored row, and the list its caller may assign
InitExons ==
    /\ LoadIdle
    /\ StoreIdle
    /\ _incomplete_exons \in RawTexts
    /\ assigned \in ExonLists
    /\ returned = <<>>
    /\ exon_pc = "loaded"
    /\ RootStart

\* stat.incomplete_exons = assigned
SetIncompleteExons ==
    /\ exon_pc \in {"loaded", "read_row"}
    /\ _incomplete_exons' = IncompleteExonsSetter(assigned)
    /\ exon_pc' = "set"
    /\ UNCHANGED <<assigned, returned, loadVars, storeVars, rootVars>>

\* stat.incomplete_exons
GetIncompleteExons ==
    /\ exon_pc \in {"loaded", "set"}
    /\ returned' = IncompleteExonsGetter(_incomplete_exons)
    /\ exon_pc' = IF exon_pc = "set" THEN "read_set" ELSE "read_row"
    /\ UNCHANGED <<_incomplete_exons, assigned, loadVars, storeVars, rootVars>>

NextExons == SetIncompleteExons \/ GetIncompleteExons

SpecExons == InitExons /\ [][NextExons]_vars

\* C9: a list of non-empty comma-free ids that is assigned and read back comes
\* back unchanged, and an unset or empty column reads as the empty list
C9_ExonsRoundTrip ==
    /\ exon_pc = "read_set" => returned = assigned
    /\ (exon_pc = "read_row" /\ _incomplete_exons \in {NoneText, <<>>}) => returned = <<>>

C9_Witness ==
    /\ exon_pc = "read_set"
    /\ Len(assigned) = 2
    /\ assigned[1] # assigned[2]
    /\ returned = assigned

-----------------------------------------------------------------------------
(* SpecRoot: the root command *)

MaxLevel == 3

DefaultDatabase == "coverage.sqlite3"

DatabaseOptions == {PyNone, "", "cli.sqlite3"}

ConfigKeys == {"database", "sambamba"}

ConfigValues == {PyNone, "", "cfg.sqlite3"}

ConfigFiles == UNION {[K -> ConfigValues] : K \in SUBSET ConfigKeys}

Min(a, b) == IF a < b THEN a ELSE b

\* dict.get(key, default)
Get(d, key, default) == IF key \in DOMAIN d THEN d[key] ELSE default

\* a resolution that lets the config file win over the command line
ResolveDatabaseConfigFirst(option, obj) ==
    IF Truthy(Get(obj, "database", PyNone)) THEN obj["database"]
    ELSE IF Truthy(option) THEN option ELSE DefaultDatabase

\* database or context.obj.get('database', 'coverage.sqlite3')
ResolveDatabase(option, obj) ==
    IF Truthy(option) THEN option ELSE Get(obj, "database", DefaultDatabase)

InitRoot ==
    /\ LoadIdle
    /\ StoreIdle
    /\ ExonNew
    /\ root_pc = "start"
    /\ database \in DatabaseOptions
    /\ verbose \in 0..MaxVerbose
    /\ config_file \in ConfigFiles
    /\ context_obj = <<>>
    /\ log_level = 0

\* root(context, config, database, verbose, log)
Root ==
    /\ root_pc = "start"
    /\ log_level' = Min(verbose, MaxLevel)
    /\ context_obj' = [k \in DOMAIN config_file \cup {"database"} |->
                          IF k = "database" THEN ResolveDatabase(database, config_file)
                          ELSE config_file[k]]
    /\ root_pc' = "done"
    /\ UNCHANGED <<database, verbose, config_file, loadVars, storeVars, exonVars>>

NextRoot == Root

SpecRoot == InitRoot /\ [][NextRoot]_vars

\* C10: context.obj['database'] is the non-empty --database value, else the
\* config file's 'database' value when it has one, else 'coverage.sqlite3'
C10_DatabasePrecedence ==
    root_pc = "done" =>
        /\ "database" \in DOMAIN context_obj
        /\ (database # PyNone /\ database # "") => context_obj["database"] = database
        /\ (database \in {PyNone, ""} /\ "database" \in DOMAIN config_file) =>
              context_obj["database"] = config_file["database"]
        /\ (database \in {PyNone, ""} /\ "database" \notin DOMAIN config_file) =>
              context_obj["database"] = "coverage.sqlite3"

C10_Witness ==
    /\ root_pc = "done"
    /\ database = "cli.sqlite3"
    /\ "database" \in DOMAIN config_file
    /\ config_file["database"] = "cfg.sqlite3"
    /\ context_obj["database"] = "cli.sqlite3"

-----------------------------------------------------------------------------
(* SpecStore: the tables under row operations *)

\* numbers of exon bases a transcript may be annotated with
TranscriptLengths == {0, 3}

\* depths of the inputs a sample is re-processed from
StoreDepths == {12}

MeanValues == {NULL, NAN, Num(12)}

InitStore ==
    /\ LoadIdle
    /\ StoreEmpty
    /\ backend \in Backends
    /\ transcripts = EmptyTable
    /\ ExonNew
    /\ RootStart

\* INSERT INTO sample
AddSample ==
    /\ \E s \in SampleIds :
          IF s \in samples
          THEN /\ lastOp' = Op("AddSample", s, NULLTEXT, NULL, TRUE, "PRIMARY KEY")
               /\ UNCHANGED samples
          ELSE /\ lastOp' = Op("AddSample", s, NULLTEXT, NULL, TRUE, "ok")
               /\ samples' = samples \cup {s}
    /\ UNCHANGED <<backend, transcripts, stats, loadVars, exonVars, rootVars>>

\* INSERT INTO transcript
AddTranscript ==
    /\ \E t \in TranscriptIds, len \in TranscriptLengths :
          IF t \in DOMAIN transcripts
          THEN /\ lastOp' = Op("AddTranscript", NULLTEXT, t, NULL, TRUE, "PRIMARY KEY")
               /\ UNCHANGED transcripts
          ELSE /\ lastOp' = Op("AddTranscript", NULLTEXT, t, NULL, TRUE, "ok")
               /\ transcripts' = [k \in DOMAIN transcripts \cup {t} |->
                                     IF k = t THEN len ELSE transcripts[k]]
    /\ UNCHANGED <<backend, samples, stats, loadVars, exonVars, rootVars>>

\* INSERT INTO transcript_stat
InsertStat ==
    /\ \E s \in SampleIds \cup {NULLTEXT}, t \in TranscriptIds, mean \in MeanValues :
          LET row == NewStat(s, t, mean)
              err == RowError(backend, samples, transcripts, stats, row)
          IN  /\ lastOp' = Op("InsertStat", s, t, mean, TRUE, err)
              /\ stats' = IF err = "ok" THEN stats (+) One(StoredRow(row, backend))
                          ELSE stats
    /\ UNCHANGED <<backend, samples, transcripts, loadVars, exonVars, rootVars>>

\* UPDATE transcript_stat SET sample_id, transcript_id
UpdateStat ==
    /\ \E r \in Rows(stats), s \in SampleIds, t \in TranscriptIds :
          LET row    == [r EXCEPT !.sample_id = s, !.transcript_id = t]
              others == stats (-) One(r)
              err    == RowError(backend, samples, transcripts, others, row)
          IN  /\ lastOp' = Op("UpdateStat", s, t, NULL, TRUE, err)
              /\ stats' = IF err = "ok" THEN others (+) One(row) ELSE stats
    /\ UNCHANGED <<backend, samples, transcripts, loadVars, exonVars, rootVars>>

\* DELETE FROM transcript_stat
DeleteStat ==
    /\ \E r \in Rows(stats) :
          /\ lastOp' = Op("DeleteStat", NULLTEXT, NULLTEXT, NULL, TRUE, "ok")
          /\ stats' = stats (-) One(r)
    /\ UNCHANGED <<backend, samples, transcripts, loadVars, exonVars, rootVars>>

\* what the database answers when a parent row with these children is deleted:
\* through the session the relationship, which has no delete cascade, first
\* sets the children's foreign key to NULL; a DELETE statement leaves the
\* children to the foreign key, which has no ON DELETE action
ParentDeleteError(b, smp, trs, table, children, column, session) ==
    IF session
    THEN IF \E c \in children :
              RowError(b, smp, trs, table (-) One(c),
                       IF column = "sample_id"
                       THEN [c EXCEPT !.sample_id = NULLTEXT]
                       ELSE [c EXCEPT !.transcript_id = NULLTEXT]) # "ok"
         THEN "NOT NULL" ELSE "ok"
    ELSE IF FkEnforced(b) /\ children # {} THEN "FOREIGN KEY" ELSE "ok"

\* session.delete(sample) or DELETE FROM sample
DeleteSample ==
    /\ \E s \in samples, session \in BOOLEAN :
          LET children == Rows(StatsOf(stats, s))
              err == ParentDeleteError(backend, samples, transcripts, stats,
                                       children, "sample_id", session)
          IN  /\ lastOp' = Op("DeleteSample", s, NULLTEXT, NULL, session, err)
              /\ samples' = IF err = "ok" THEN samples \ {s} ELSE samples
    /\ UNCHANGED <<backend, transcripts, stats, loadVars, exonVars, rootVars>>

\* session.delete(transcript) or DELETE FROM transcript
DeleteTranscript ==
    /\ \E t \in DOMAIN transcripts, session \in BOOLEAN :
          LET children == {r \in Rows(stats) : r.transcript_id = t}
              err == ParentDeleteError(backend, samples, transcripts, stats,
                                       children, "transcript_id", session)
          IN  /\ lastOp' = Op("DeleteTranscript", NULLTEXT, t, NULL, session, err)
              /\ transcripts' = IF err = "ok"
                                THEN [k \in DOMAIN transcripts \ {t} |-> transcripts[k]]
                                ELSE transcripts
    /\ UNCHANGED <<backend, samples, stats, loadVars, exonVars, rootVars>>

\* a sample is (re-)processed: the per-sample transaction
ReplaceSampleStats ==
    /\ \E s \in SampleIds, d \in StoreDepths :
          LET rows == Aggregate(s, transcripts, d, DefaultThresholds)
              res  == ReplaceStats(backend, samples, transcripts, stats, s, rows)
          IN  /\ lastOp' = Op("ReplaceStats", s, NULLTEXT, NULL, TRUE, res.error)
              /\ samples' = res.samples
              /\ stats' = res.table
    /\ UNCHANGED <<backend, transcripts, loadVars, exonVars, rootVars>>

NextStore ==
    \/ AddSample
    \/ AddTranscript
    \/ InsertStat
    \/ UpdateStat
    \/ DeleteStat
    \/ DeleteSample
    \/ DeleteTranscript
    \/ ReplaceSampleStats

SpecStore == InitStore /\ [][NextStore]_vars

\* C1: no two transcript_stat rows share a (sample_id, transcript_id) pair,
\* and an insert or update that the database accepted left one row for its pair
C1_UniqueSampleTranscript ==
    /\ \A s \in SampleIds \cup {NULLTEXT}, t \in TranscriptIds \cup {NULLTEXT} :
          BagCardinality(StatsOfPair(stats, s, t)) <= 1
    /\ (lastOp.kind \in {"InsertStat", "UpdateStat"} /\ lastOp.result = "ok") =>
          BagCardinality(StatsOfPair(stats, lastOp.sample_id, lastOp.transcript_id)) = 1

C1_Witness ==
    /\ lastOp.kind = "InsertStat"
    /\ lastOp.result = "UNIQUE"
    /\ BagCardinality(StatsOfPair(stats, lastOp.sample_id, lastOp.transcript_id)) = 1
    /\ BagCardinality(stats) >= 2

\* C4: deleting a sample or a transcript succeeds and leaves no row that
\* references it
C4_DeleteCascades ==
    /\ lastOp.kind = "DeleteSample" =>
          (lastOp.result = "ok" /\ StatsOf(stats, lastOp.sample_id) = EmptyBag)
    /\ lastOp.kind = "DeleteTranscript" =>
          (lastOp.result = "ok" /\ \A r \in Rows(stats) : r.transcript_id # lastOp.transcript_id)

\* C7: a row whose transcript has length 0 and whose mean coverage is
\* undefined is not refused for its mean coverage
C7_UndefinedMeanPersists ==
    ( /\ lastOp.kind = "InsertStat"
      /\ lastOp.mean_coverage \in {NULL, NAN}
      /\ lastOp.sample_id \in samples
      /\ lastOp.transcript_id \in DOMAIN transcripts
      /\ transcripts[lastOp.transcript_id] = 0 ) =>
        lastOp.result # "NOT NULL"

====
